---- MODULE Spec2Model ----
(***************************************************************************)
(* Model of weburg-playlist-loader.py: an XSPF playlist is fetched, turned *)
(* into a catalog of channels and a list of channel groups, and rendered   *)
(* into a multicast and a unicast M3U file.                                *)
(*                                                                         *)
(* Text is a sequence of one-character strings.  An optional value (a      *)
(* Python None or a value) is the empty sequence or a one-element one.     *)
(* A file's content is the sequence of its lines: every write call of the  *)
(* program writes one line ending in a line feed, and the texts of the     *)
(* input pools hold no line feed after trimming.                           *)
(***************************************************************************)
EXTENDS Integers, Sequences, FiniteSets, TLC

VARIABLES pc, argv, args, xml, channels_by_ids, groups, proxy_address, fs,
          log, calls, wcall

vars == <<pc, argv, args, xml, channels_by_ids, groups, proxy_address, fs,
          log, calls, wcall>>

----------------------------------------------------------------------------
(* Bounds of the model. *)
MaxTracks == 2
MaxNodes == 2
MaxGroups == 2

----------------------------------------------------------------------------
(* Optional values and text. *)
None == <<>>

Some(x) == <<x>>

IsNone(o) == Len(o) = 0

Get(o) == o[1]

Ascii == <<" ", "!", "\"", "#", "$", "%", "&", "'", "(", ")", "*", "+", ",", "-", ".", "/", "0", "1", "2", "3", "4", "5", "6", "7", "8", "9", ":", ";", "<", "=", ">", "?", "@", "A", "B", "C", "D", "E", "F", "G", "H", "I", "J", "K", "L", "M", "N", "O", "P", "Q", "R", "S", "T", "U", "V", "W", "X", "Y", "Z", "[", "\\", "]", "^", "_", "grave", "a", "b", "c", "d", "e", "f", "g", "h", "i", "j", "k", "l", "m", "n", "o", "p", "q", "r", "s", "t", "u", "v", "w", "x", "y", "z", "{", "|", "}", "~">>

(* The code point of a printable ASCII character (the entry "grave" holds
   the place of the grave accent, code point 96). *)
Ord(c) == 31 + (CHOOSE i \in 1..Len(Ascii) : Ascii[i] = c)

Digits == <<"0", "1", "2", "3", "4", "5", "6", "7", "8", "9">>

IsDigit(c) == \E i \in 1..Len(Digits) : Digits[i] = c

DigitVal(c) == (CHOOSE i \in 1..Len(Digits) : Digits[i] = c) - 1

IsSpace(c) == c \in {" ", "\t", "\n", "\r", "\f"}

(* str < str of Python: lexicographic by code point, a proper prefix first. *)
RECURSIVE StrLess(_, _)
StrLess(s, t) ==
    IF Len(t) = 0 THEN FALSE
    ELSE IF Len(s) = 0 THEN TRUE
    ELSE IF Head(s) = Head(t) THEN StrLess(Tail(s), Tail(t))
    ELSE Ord(Head(s)) < Ord(Head(t))

RECURSIVE LStrip(_)
LStrip(s) == IF Len(s) > 0 /\ IsSpace(Head(s)) THEN LStrip(Tail(s)) ELSE s

RECURSIVE RStrip(_)
RStrip(s) ==
    IF Len(s) > 0 /\ IsSpace(s[Len(s)]) THEN RStrip(SubSeq(s, 1, Len(s) - 1)) ELSE s

(* str.strip() *)
Strip(s) == RStrip(LStrip(s))

(* Index of the first occurrence of character c in s, 0 when there is none. *)
Find(s, c) ==
    IF \E i \in 1..Len(s) : s[i] = c
    THEN CHOOSE i \in 1..Len(s) : s[i] = c /\ \A j \in 1..(i - 1) : s[j] # c
    ELSE 0

(* s.split(c, 1): one part when c does not occur, else the parts around the
   first occurrence. *)
Split1(s, c) ==
    LET i == Find(s, c)
    IN  IF i = 0 THEN <<s>> ELSE <<SubSeq(s, 1, i - 1), SubSeq(s, i + 1, Len(s))>>

RECURSIVE DigitsValue(_, _)
DigitsValue(s, acc) ==
    IF Len(s) = 0 THEN acc ELSE DigitsValue(Tail(s), 10 * acc + DigitVal(Head(s)))

(* int(text): surrounding whitespace is dropped, one optional sign, then one
   or more decimal digits; anything else raises ValueError. *)
ParseInt(s) ==
    LET t == Strip(s)
        signed == Len(t) > 0 /\ Head(t) \in {"+", "-"}
        d == IF signed THEN Tail(t) ELSE t
        wellFormed == Len(d) > 0 /\ \A i \in 1..Len(d) : IsDigit(d[i])
    IN  IF ~wellFormed THEN [ok |-> FALSE, val |-> 0]
        ELSE [ok |-> TRUE,
              val |-> IF signed /\ Head(t) = "-" THEN 0 - DigitsValue(d, 0)
                      ELSE DigitsValue(d, 0)]

RECURSIVE NatToStr(_)
NatToStr(n) ==
    IF n < 10 THEN <<Digits[n + 1]>> ELSE NatToStr(n \div 10) \o <<Digits[(n % 10) + 1]>>

(* "{}".format(n) for an int *)
IntToStr(n) == IF n < 0 THEN <<"-">> \o NatToStr(0 - n) ELSE NatToStr(n)

NONE_TEXT == <<"N", "o", "n", "e">>

----------------------------------------------------------------------------
(* The value classes. *)
SocketAddress(host, port) == [host |-> host, port |-> port]

(* SocketAddress.__str__ *)
AddressStr(a) == a.host \o <<":">> \o IntToStr(a.port)

Channel(channel_id, name, address) ==
    [id |-> channel_id, name |-> name, address |-> address]

ChannelGroup(name, channels) == [name |-> name, channels |-> channels]

MULTICAST == 1
UNICAST == 2

HEADER == <<"#", "E", "X", "T", "M", "3", "U">>

EXTINF_PREFIX == <<"#", "E", "X", "T", "I", "N", "F", ":", "0", " ", "g", "r", "o", "u", "p", "-", "t", "i", "t", "l", "e", "=", "\"">>

EXTINF_SEP == <<"\"", ",">>

HTTP_PREFIX == <<"h", "t", "t", "p", ":", "/", "/">>

UDP_PATH == <<"/", "u", "d", "p", "/">>

UDP_PREFIX == <<"u", "d", "p", ":", "/", "/", "@">>

----------------------------------------------------------------------------
(* write_playlist *)

(* "{}".format(x) for a channel name: the text itself, or None's text. *)
FormatName(o) == IF IsNone(o) THEN NONE_TEXT ELSE Get(o)

(* "{}".format(x) for a channel address. *)
FormatAddress(o) == IF IsNone(o) THEN NONE_TEXT ELSE AddressStr(Get(o))

ExtinfLine(group, channel) ==
    EXTINF_PREFIX \o group.name \o EXTINF_SEP \o FormatName(channel.name)

(* A variant of UnicastLine with the two addresses in each other's place. *)
UnicastLine_Swapped(proxy, channel) ==
    HTTP_PREFIX \o FormatAddress(channel.address) \o UDP_PATH \o AddressStr(proxy)

UnicastLine(proxy, channel) ==
    HTTP_PREFIX \o AddressStr(proxy) \o UDP_PATH \o FormatAddress(channel.address)

MulticastLine(channel) == UDP_PREFIX \o FormatAddress(channel.address)

(* The key order of sorted(groups, key=attrgetter("name")). *)
GroupKeyLess(x, y) == StrLess(x.name, y.name)

(* The key order of sorted(group.channels, key=attrgetter("name")); the keys
   are texts here, see SortChannelsRaises. *)
ChannelKeyLess(x, y) == StrLess(Get(x.name), Get(y.name))

(* Stable insertion of x: before the first element whose key is greater. *)
RECURSIVE InsertGroup(_, _)
InsertGroup(sorted, x) ==
    IF Len(sorted) = 0 THEN <<x>>
    ELSE IF GroupKeyLess(x, Head(sorted)) THEN <<x>> \o sorted
    ELSE <<Head(sorted)>> \o InsertGroup(Tail(sorted), x)

RECURSIVE SortGroupsInto(_, _)
SortGroupsInto(sorted, rest) ==
    IF Len(rest) = 0 THEN sorted
    ELSE SortGroupsInto(InsertGroup(sorted, Head(rest)), Tail(rest))

(* sorted(groups, key=attrgetter("name")): a new list, stable. *)
SortedGroups(gs) == SortGroupsInto(<<>>, gs)

(* A variant of InsertChannel that is not stable: the new element goes before
   an element of the same key. *)
RECURSIVE InsertChannel_Unstable(_, _)
InsertChannel_Unstable(sorted, x) ==
    IF Len(sorted) = 0 THEN <<x>>
    ELSE IF ~ChannelKeyLess(Head(sorted), x) THEN <<x>> \o sorted
    ELSE <<Head(sorted)>> \o InsertChannel_Unstable(Tail(sorted), x)

RECURSIVE InsertChannel(_, _)
InsertChannel(sorted, x) ==
    IF Len(sorted) = 0 THEN <<x>>
    ELSE IF ChannelKeyLess(x, Head(sorted)) THEN <<x>> \o sorted
    ELSE <<Head(sorted)>> \o InsertChannel(Tail(sorted), x)

RECURSIVE SortChannelsInto(_, _)
SortChannelsInto(sorted, rest) ==
    IF Len(rest) = 0 THEN sorted
    ELSE SortChannelsInto(InsertChannel(sorted, Head(rest)), Tail(rest))

SortedChannels(cs) == SortChannelsInto(<<>>, cs)

(* sorted() compares every key with another one as soon as there are two:
   a None name among two or more raises TypeError. *)
SortChannelsRaises(cs) == Len(cs) >= 2 /\ \E i \in 1..Len(cs) : IsNone(cs[i].name)

(* The inner loop of write_playlist over one group's channels: the lines
   written so far, and whether the loop ended without an exception. *)
RECURSIVE WriteChannels(_, _, _, _, _)
WriteChannels(lines, playlist_type, group, cs, proxy) ==
    IF Len(cs) = 0 THEN [ok |-> TRUE, lines |-> lines]
    ELSE LET channel == Head(cs)
             l1 == Append(lines, ExtinfLine(group, channel))
         IN  IF playlist_type = UNICAST
             THEN WriteChannels(Append(l1, UnicastLine(proxy, channel)),
                                playlist_type, group, Tail(cs), proxy)
             ELSE IF playlist_type = MULTICAST
             THEN WriteChannels(Append(l1, MulticastLine(channel)),
                                playlist_type, group, Tail(cs), proxy)
             ELSE [ok |-> FALSE, lines |-> l1]

(* The outer loop of write_playlist over the groups, already in iteration
   order. *)
RECURSIVE WriteGroups(_, _, _, _, _)
WriteGroups(lines, playlist_type, gs, proxy, sort_by_name) ==
    IF Len(gs) = 0 THEN [ok |-> TRUE, lines |-> lines]
    ELSE LET group == Head(gs)
         IN  IF sort_by_name /\ SortChannelsRaises(group.channels)
             THEN [ok |-> FALSE, lines |-> lines]
             ELSE LET cs == IF sort_by_name THEN SortedChannels(group.channels)
                            ELSE group.channels
                      r == WriteChannels(lines, playlist_type, group, cs, proxy)
                  IN  IF r.ok
                      THEN WriteGroups(r.lines, playlist_type, Tail(gs), proxy, sort_by_name)
                      ELSE r

(* The lines write_playlist leaves in the opened file. *)
PlaylistLines(playlist_type, gs, proxy, sort_by_name) ==
    WriteGroups(<<HEADER>>, playlist_type,
                IF sort_by_name THEN SortedGroups(gs) ELSE gs,
                proxy, sort_by_name)

(* write_playlist on the file system files: open(filename, "w") either raises
   and leaves the files alone, or truncates the file; the with block keeps
   what was written when an exception leaves it. *)
WritePlaylist(files, filename, playlist_type, gs, proxy, sort_by_name, open_ok) ==
    IF ~open_ok THEN [ok |-> FALSE, fs |-> files]
    ELSE LET r == PlaylistLines(playlist_type, gs, proxy, sort_by_name)
         IN  [ok |-> r.ok, fs |-> [files EXCEPT ![filename] = Some(r.lines)]]

----------------------------------------------------------------------------
(* The parsed document.  xml.tracks are the elements that
   findall("xmlns:trackList/xmlns:track") yields and xml.nodes those that
   findall("xmlns:extension/{vlc}node") yields, in document order.  A track
   is the sequence of its sub-elements, each with the local name of its tag,
   its text (None for an empty element) and, for an extension, the result of
   find("{vlc}id"): None or the id element's text.  A node has its title
   attribute (None when missing) and the tid attribute of each child. *)
Title(text) == [tag |-> "title", text |-> text, idElem |-> None]

Location(text) == [tag |-> "location", text |-> text, idElem |-> None]

Extension(idElem) == [tag |-> "extension", text |-> None, idElem |-> idElem]

Image == [tag |-> "image", text |-> None, idElem |-> None]

Node(title, tids) == [title |-> title, tids |-> tids]

(* One step of the loop over a track's sub-elements (lines 77-88); t holds
   channel_id, channel_name and address, and ok turns FALSE when the step
   raises. *)
ParseSubElem(t, e) ==
    IF e.tag = "title"
    THEN IF IsNone(e.text) THEN [t EXCEPT !.ok = FALSE]
         ELSE [t EXCEPT !.name = Some(Strip(Get(e.text)))]
    ELSE IF e.tag = "location"
    THEN IF IsNone(e.text) THEN [t EXCEPT !.ok = FALSE]
         ELSE LET parts == Split1(Get(e.text), "@")
              IN  IF Len(parts) < 2 THEN [t EXCEPT !.ok = FALSE]
                  ELSE LET hp == Split1(parts[2], ":")
                       IN  IF Len(hp) # 2 THEN [t EXCEPT !.ok = FALSE]
                           ELSE LET port == ParseInt(hp[2])
                                IN  IF ~port.ok THEN [t EXCEPT !.ok = FALSE]
                                    ELSE [t EXCEPT !.address =
                                             Some(SocketAddress(hp[1], port.val))]
    ELSE IF e.tag = "extension"
    THEN IF IsNone(e.idElem) THEN t
         ELSE IF IsNone(Get(e.idElem)) THEN [t EXCEPT !.ok = FALSE]
         ELSE LET n == ParseInt(Get(Get(e.idElem)))
              IN  IF ~n.ok THEN [t EXCEPT !.ok = FALSE]
                  ELSE [t EXCEPT !.id = Some(n.val)]
    ELSE t

RECURSIVE ParseSubElems(_, _)
ParseSubElems(t, elems) ==
    IF Len(elems) = 0 \/ ~t.ok THEN t
    ELSE ParseSubElems(ParseSubElem(t, Head(elems)), Tail(elems))

(* The body of the loop over the tracks, up to the Channel it stores. *)
ParseTrack(trackElem) ==
    ParseSubElems([ok |-> TRUE, id |-> None, name |-> None, address |-> None],
                  trackElem)

EmptyDict == [k \in {} |-> None]

(* A variant of DictPut that keeps the value a key already has. *)
DictPut_FirstWins(d, key, value) ==
    [k \in DOMAIN d \cup {key} |-> IF k \in DOMAIN d THEN d[k] ELSE value]

(* channels_by_ids[key] = value *)
DictPut(d, key, value) ==
    [k \in DOMAIN d \cup {key} |-> IF k = key THEN value ELSE d[k]]

RECURSIVE ParseTracksInto(_, _)
ParseTracksInto(d, tracks) ==
    IF Len(tracks) = 0 THEN [ok |-> TRUE, val |-> d]
    ELSE LET t == ParseTrack(Head(tracks))
         IN  IF ~t.ok THEN [ok |-> FALSE, val |-> d]
             ELSE ParseTracksInto(DictPut(d, t.id, Channel(t.id, t.name, t.address)),
                                  Tail(tracks))

(* parse_channels_by_ids: ok is FALSE when it raises. *)
ParseChannelsByIds(doc) == ParseTracksInto(EmptyDict, doc.tracks)

(* A variant of ParseGroupItems that passes over a tid the Catalog lacks. *)
RECURSIVE ParseGroupItems_SkipUnknown(_, _, _)
ParseGroupItems_SkipUnknown(group_channels, tids, d) ==
    IF Len(tids) = 0 THEN [ok |-> TRUE, val |-> group_channels]
    ELSE IF IsNone(Head(tids)) THEN [ok |-> FALSE, val |-> group_channels]
    ELSE LET n == ParseInt(Get(Head(tids)))
         IN  IF ~n.ok THEN [ok |-> FALSE, val |-> group_channels]
             ELSE IF Some(n.val) \notin DOMAIN d
             THEN ParseGroupItems_SkipUnknown(group_channels, Tail(tids), d)
             ELSE ParseGroupItems_SkipUnknown(Append(group_channels, d[Some(n.val)]),
                                              Tail(tids), d)

(* A variant of ParseGroupItems that keeps a channel once per group. *)
RECURSIVE ParseGroupItems_Once(_, _, _)
ParseGroupItems_Once(group_channels, tids, d) ==
    IF Len(tids) = 0 THEN [ok |-> TRUE, val |-> group_channels]
    ELSE IF IsNone(Head(tids)) THEN [ok |-> FALSE, val |-> group_channels]
    ELSE LET n == ParseInt(Get(Head(tids)))
         IN  IF ~n.ok \/ Some(n.val) \notin DOMAIN d
             THEN [ok |-> FALSE, val |-> group_channels]
             ELSE IF \E i \in 1..Len(group_channels) : group_channels[i] = d[Some(n.val)]
             THEN ParseGroupItems_Once(group_channels, Tail(tids), d)
             ELSE ParseGroupItems_Once(Append(group_channels, d[Some(n.val)]), Tail(tids), d)

(* The loop over a node's children (lines 102-104). *)
RECURSIVE ParseGroupItems(_, _, _)
ParseGroupItems(group_channels, tids, d) ==
    IF Len(tids) = 0 THEN [ok |-> TRUE, val |-> group_channels]
    ELSE IF IsNone(Head(tids)) THEN [ok |-> FALSE, val |-> group_channels]
    ELSE LET n == ParseInt(Get(Head(tids)))
         IN  IF ~n.ok \/ Some(n.val) \notin DOMAIN d
             THEN [ok |-> FALSE, val |-> group_channels]
             ELSE ParseGroupItems(Append(group_channels, d[Some(n.val)]), Tail(tids), d)

RECURSIVE ParseNodesInto(_, _, _)
ParseNodesInto(gs, nodes, d) ==
    IF Len(nodes) = 0 THEN [ok |-> TRUE, val |-> gs]
    ELSE LET groupElem == Head(nodes)
         IN  IF IsNone(groupElem.title) THEN [ok |-> FALSE, val |-> gs]
             ELSE LET items == ParseGroupItems(<<>>, groupElem.tids, d)
                  IN  IF ~items.ok THEN [ok |-> FALSE, val |-> gs]
                      ELSE ParseNodesInto(
                               Append(gs, ChannelGroup(Strip(Get(groupElem.title)),
                                                       items.val)),
                               Tail(nodes), d)

(* parse_channel_groups: ok is FALSE when it raises. *)
ParseChannelGroups(doc, d) == ParseNodesInto(<<>>, doc.nodes, d)

----------------------------------------------------------------------------
(* The inputs of the model. *)
TrackPool ==
    { <<Title(Some(<<" ", "a", " ">>)), Location(Some(<<"u", "d", "p", ":", "/", "/", "@", "h", "1", ":", "1", "2", "3", "4">>)), Extension(Some(Some(<<"1">>)))>>,
      <<Title(Some(<<"B">>)), Image, Location(Some(<<"u", "d", "p", ":", "/", "/", "@", "h", "2", ":", "0", "8", "0">>)), Extension(Some(Some(<<"2">>)))>>,
      <<Title(Some(<<"a">>)), Location(Some(<<"r", "t", "p", ":", "/", "/", "@", "h", "3", ":", "-", "5">>)), Extension(Some(Some(<<"1">>)))>>,
      <<Extension(Some(Some(<<"2">>)))>>,
      <<Title(Some(<<"c">>)), Extension(None), Location(Some(<<"u", "d", "p", ":", "/", "/", "@", "h", "2", ":", "0", "8", "0">>))>>,
      <<Title(Some(<<"d">>))>>,
      <<Title(Some(<<" ", "a", " ">>)), Location(Some(<<"u", "d", "p", ":", "/", "/", "h", "1", ":", "1", "2", "3", "4">>)), Extension(Some(Some(<<"2">>)))>>,
      <<Title(Some(<<" ", "a", " ">>)), Location(Some(<<"u", "d", "p", ":", "/", "/", "@", "h", "1", ":", "1", "2", "3", "4">>)), Extension(Some(Some(<<"x">>)))>>,
      <<Title(Some(<<"B">>)), Location(Some(<<"u", "d", "p", ":", "/", "/", "@", "h", "2", ":", "8", "a">>)), Extension(Some(Some(<<"2">>)))>>,
      <<Title(None), Location(Some(<<"u", "d", "p", ":", "/", "/", "@", "h", "1">>)), Extension(Some(None))>> }

NodePool ==
    { Node(Some(<<" ", "y">>), <<Some(<<"1">>), Some(<<"2">>)>>),
      Node(Some(<<"x">>), <<Some(<<" ", "0", "2">>), Some(<<"1">>), Some(<<"2">>)>>),
      Node(Some(<<"y", " ">>), <<Some(<<"1">>), Some(<<"9">>)>>),
      Node(Some(<<"z">>), <<>>) }

RECURSIVE SeqsUpTo(_, _)
SeqsUpTo(S, n) ==
    IF n = 0 THEN {<<>>}
    ELSE LET shorter == SeqsUpTo(S, n - 1)
         IN  shorter \cup {Append(q, x) : q \in shorter, x \in S}

Docs == [tracks : SeqsUpTo(TrackPool, MaxTracks), nodes : SeqsUpTo(NodePool, MaxNodes)]

DEFAULT_URL == "http://weburg.tv/playlist.vlc"

DEFAULT_MULTICAST_PLAYLIST == "Playlist (multicast).m3u"

DEFAULT_UNICAST_PLAYLIST == "PlayList (unicast).m3u"

Paths == {DEFAULT_MULTICAST_PLAYLIST, DEFAULT_UNICAST_PLAYLIST, "out.m3u"}

(* The command lines: each option's text, None when the option is not given. *)
ArgvPool ==
    { [url |-> None, host |-> Some(<<"p", "r", "o", "x", "y">>), port |-> Some(<<"8", "0", "8", "0">>),
       multicast_playlist |-> None, unicast_playlist |-> None, sort_by_name |-> FALSE],
      [url |-> None, host |-> Some(<<"p", "r", "o", "x", "y">>), port |-> Some(<<"8", "0", "8", "0">>),
       multicast_playlist |-> Some("out.m3u"), unicast_playlist |-> None,
       sort_by_name |-> TRUE],
      [url |-> Some("http://localhost/p.xml"), host |-> Some(<<"g", "w">>), port |-> Some(<<"-", "1">>),
       multicast_playlist |-> Some("out.m3u"), unicast_playlist |-> Some("out.m3u"),
       sort_by_name |-> FALSE],
      [url |-> None, host |-> Some(<<"p", "r", "o", "x", "y">>), port |-> Some(<<"8", "0", "a">>),
       multicast_playlist |-> None, unicast_playlist |-> None, sort_by_name |-> FALSE],
      [url |-> None, host |-> None, port |-> Some(<<"8", "0", "8", "0">>),
       multicast_playlist |-> None, unicast_playlist |-> None, sort_by_name |-> FALSE] }

(* The files before the run: one playlist of an earlier run is in place. *)
STALE == <<<<"#", "o", "l", "d">>>>

InitialFiles ==
    [p \in Paths |-> IF p = DEFAULT_MULTICAST_PLAYLIST THEN Some(STALE) ELSE None]

----------------------------------------------------------------------------
(* main, one action per stage.  pc is the stage about to run, "done" after
   main returned (exit status 0) and "failed" after an exception or an
   argparse error ended the process (exit status not 0).  log records the
   stages that ran and calls the arguments of every write_playlist call. *)
Stage(name, ok) == [stage |-> name, ok |-> ok]

WriteCall(filename, playlist_type, gs, proxy, sort_by_name) ==
    [filename |-> filename, playlist_type |-> playlist_type, groups |-> gs,
     proxy_address |-> proxy, sort_by_name |-> sort_by_name]

Default(option, value) == IF IsNone(option) THEN value ELSE Get(option)

(* parse_args: --host and --port are required, --port is converted by int. *)
ParseArgsResult(av) ==
    IF IsNone(av.host) \/ IsNone(av.port) THEN [ok |-> FALSE, val |-> None]
    ELSE LET port == ParseInt(Get(av.port))
         IN  IF ~port.ok THEN [ok |-> FALSE, val |-> None]
             ELSE [ok |-> TRUE,
                   val |-> Some([url |-> Default(av.url, DEFAULT_URL),
                                 host |-> Get(av.host),
                                 port |-> port.val,
                                 multicast_playlist |->
                                     Default(av.multicast_playlist, DEFAULT_MULTICAST_PLAYLIST),
                                 unicast_playlist |->
                                     Default(av.unicast_playlist, DEFAULT_UNICAST_PLAYLIST),
                                 sort_by_name |-> av.sort_by_name])]

Init ==
    /\ pc = "args"
    /\ argv \in ArgvPool
    /\ args = None
    /\ xml = None
    /\ channels_by_ids = None
    /\ groups = None
    /\ proxy_address = None
    /\ fs = InitialFiles
    /\ log = <<>>
    /\ calls = <<>>
    /\ wcall = None

ParseArgs ==
    /\ pc = "args"
    /\ LET r == ParseArgsResult(argv)
       IN  /\ args' = r.val
           /\ pc' = IF r.ok THEN "fetch" ELSE "failed"
    /\ UNCHANGED <<argv, xml, channels_by_ids, groups, proxy_address, fs, log, calls, wcall>>

(* fetch_xml_playlist: the transport yields a document or raises. *)
Fetch ==
    /\ pc = "fetch"
    /\ \/ \E doc \in Docs :
             /\ xml' = Some(doc)
             /\ log' = Append(log, Stage("fetch", TRUE))
             /\ pc' = "catalog"
       \/ /\ xml' = xml
          /\ log' = Append(log, Stage("fetch", FALSE))
          /\ pc' = "failed"
    /\ UNCHANGED <<argv, args, channels_by_ids, groups, proxy_address, fs, calls, wcall>>

BuildCatalog ==
    /\ pc = "catalog"
    /\ LET r == ParseChannelsByIds(Get(xml))
       IN  /\ channels_by_ids' = IF r.ok THEN Some(r.val) ELSE channels_by_ids
           /\ log' = Append(log, Stage("catalog", r.ok))
           /\ pc' = IF r.ok THEN "groups" ELSE "failed"
    /\ UNCHANGED <<argv, args, xml, groups, proxy_address, fs, calls, wcall>>

(* parse_channel_groups, then the proxy address of line 136. *)
BuildGroups ==
    /\ pc = "groups"
    /\ LET r == ParseChannelGroups(Get(xml), Get(channels_by_ids))
       IN  /\ groups' = IF r.ok THEN Some(r.val) ELSE groups
           /\ proxy_address' = IF r.ok THEN Some(SocketAddress(Get(args).host, Get(args).port))
                               ELSE proxy_address
           /\ log' = Append(log, Stage("groups", r.ok))
           /\ pc' = IF r.ok THEN "multicast" ELSE "failed"
    /\ UNCHANGED <<argv, args, xml, channels_by_ids, fs, calls, wcall>>

(* A variant of RenderMulticast in which main goes on to the unicast playlist
   when writing the multicast one raised. *)
RenderMulticast_GoesOn ==
    /\ pc = "multicast"
    /\ \E open_ok \in BOOLEAN :
          LET a == Get(args)
              r == WritePlaylist(fs, a.multicast_playlist, MULTICAST, Get(groups),
                                 Get(proxy_address), a.sort_by_name, open_ok)
          IN  /\ fs' = r.fs
              /\ calls' = Append(calls, WriteCall(a.multicast_playlist, MULTICAST,
                                                  Get(groups), Get(proxy_address),
                                                  a.sort_by_name))
              /\ log' = Append(log, Stage("multicast", r.ok))
              /\ pc' = "unicast"
    /\ UNCHANGED <<argv, args, xml, channels_by_ids, groups, proxy_address, wcall>>

RenderMulticast ==
    /\ pc = "multicast"
    /\ \E open_ok \in BOOLEAN :
          LET a == Get(args)
              r == WritePlaylist(fs, a.multicast_playlist, MULTICAST, Get(groups),
                                 Get(proxy_address), a.sort_by_name, open_ok)
          IN  /\ fs' = r.fs
              /\ calls' = Append(calls, WriteCall(a.multicast_playlist, MULTICAST,
                                                  Get(groups), Get(proxy_address),
                                                  a.sort_by_name))
              /\ log' = Append(log, Stage("multicast", r.ok))
              /\ pc' = IF r.ok THEN "unicast" ELSE "failed"
    /\ UNCHANGED <<argv, args, xml, channels_by_ids, groups, proxy_address, wcall>>

RenderUnicast ==
    /\ pc = "unicast"
    /\ \E open_ok \in BOOLEAN :
          LET a == Get(args)
              r == WritePlaylist(fs, a.unicast_playlist, UNICAST, Get(groups),
                                 Get(proxy_address), a.sort_by_name, open_ok)
          IN  /\ fs' = r.fs
              /\ calls' = Append(calls, WriteCall(a.unicast_playlist, UNICAST,
                                                  Get(groups), Get(proxy_address),
                                                  a.sort_by_name))
              /\ log' = Append(log, Stage("unicast", r.ok))
              /\ pc' = IF r.ok THEN "done" ELSE "failed"
    /\ UNCHANGED <<argv, args, xml, channels_by_ids, groups, proxy_address, wcall>>

Next ==
    \/ ParseArgs
    \/ Fetch
    \/ BuildCatalog
    \/ BuildGroups
    \/ RenderMulticast
    \/ RenderUnicast

Spec == Init /\ [][Next]_vars

----------------------------------------------------------------------------
(* write_playlist called on its own, with any playlist type. *)
ChanA1 == Channel(Some(1), Some(<<"a">>), Some(SocketAddress(<<"h", "1">>, 1234)))

ChanA2 == Channel(Some(2), Some(<<"a">>), Some(SocketAddress(<<"h", "2">>, 80)))

ChanB == Channel(Some(3), Some(<<"B">>), Some(SocketAddress(<<"h", "3">>, 5004)))

ChanAb == Channel(Some(4), Some(<<"a", "b">>), Some(SocketAddress(<<"h", "4">>, 1)))

ChannelLists ==
    { <<>>, <<ChanB>>, <<ChanA1, ChanB>>, <<ChanA2, ChanA1>>, <<ChanAb, ChanA1, ChanB, ChanA2>> }

GroupPool == { ChannelGroup(n, cs) : n \in {<<"y">>, <<"x">>}, cs \in ChannelLists }

ProxyPool == { SocketAddress(<<"p", "r", "o", "x", "y">>, 8080), SocketAddress(<<"g", "w">>, 7) }

PlaylistTypes == {MULTICAST, UNICAST, 0}

WCalls ==
    { WriteCall(f, t, gs, p, s) :
          f \in {DEFAULT_MULTICAST_PLAYLIST, "out.m3u"}, t \in PlaylistTypes,
          gs \in SeqsUpTo(GroupPool, MaxGroups), p \in ProxyPool, s \in BOOLEAN }

InitWrite ==
    /\ pc = "call"
    /\ wcall \in WCalls
    /\ fs = InitialFiles
    /\ argv = None
    /\ args = None
    /\ xml = None
    /\ channels_by_ids = None
    /\ groups = None
    /\ proxy_address = None
    /\ log = <<>>
    /\ calls = <<>>

CallWritePlaylist ==
    /\ pc = "call"
    /\ \E open_ok \in BOOLEAN :
          LET r == WritePlaylist(fs, wcall.filename, wcall.playlist_type, wcall.groups,
                                 wcall.proxy_address, wcall.sort_by_name, open_ok)
          IN  /\ fs' = r.fs
              /\ pc' = IF r.ok THEN "returned" ELSE "raised"
    /\ calls' = Append(calls, wcall)
    /\ UNCHANGED <<argv, args, xml, channels_by_ids, groups, proxy_address, log, wcall>>

NextWrite == CallWritePlaylist

SpecWrite == InitWrite /\ [][NextWrite]_vars

----------------------------------------------------------------------------
(* What the claims speak of, stated apart from the program's loops. *)

(* The membership entries of a group list, flattened: <<group, channel>>. *)
RECURSIVE Entries(_)
Entries(gs) ==
    IF Len(gs) = 0 THEN <<>>
    ELSE [i \in 1..Len(Head(gs).channels) |-> <<Head(gs), Head(gs).channels[i]>>]
         \o Entries(Tail(gs))

TargetText(playlist_type, proxy, address) ==
    IF playlist_type = MULTICAST
    THEN UDP_PREFIX \o address.host \o <<":">> \o IntToStr(address.port)
    ELSE HTTP_PREFIX \o proxy.host \o <<":">> \o IntToStr(proxy.port)
         \o UDP_PATH \o address.host \o <<":">> \o IntToStr(address.port)

(* lines is the header followed, for each entry of gs in order, by its
   EXTINF line and its target line. *)
IsRenderingOf(lines, playlist_type, gs, proxy) ==
    LET es == Entries(gs)
    IN  /\ Len(lines) = 1 + 2 * Len(es)
        /\ lines[1] = HEADER
        /\ \A k \in 1..Len(es) :
              /\ lines[2 * k] = EXTINF_PREFIX \o es[k][1].name \o EXTINF_SEP
                                \o Get(es[k][2].name)
              /\ lines[2 * k + 1] = TargetText(playlist_type, proxy, Get(es[k][2].address))

Orderings(n) == { p \in [1..n -> 1..n] : \A i, j \in 1..n : i # j => p[i] # p[j] }

(* The one ordering of 1..Len(names) that is non-decreasing in the names and
   keeps equal names in their input order. *)
StableOrder(names) ==
    CHOOSE p \in Orderings(Len(names)) :
        \A i, j \in 1..Len(names) :
            i < j => /\ ~StrLess(names[p[j]], names[p[i]])
                     /\ (names[p[i]] = names[p[j]] => p[i] < p[j])

ChannelsByName(cs) ==
    LET p == StableOrder([i \in 1..Len(cs) |-> Get(cs[i].name)])
    IN  [i \in 1..Len(cs) |-> cs[p[i]]]

GroupsByName(gs) ==
    LET p == StableOrder([i \in 1..Len(gs) |-> gs[i].name])
    IN  [i \in 1..Len(gs) |-> ChannelGroup(gs[p[i]].name, ChannelsByName(gs[p[i]].channels))]

NonDecreasing(names) ==
    \A i \in 1..(Len(names) - 1) : ~StrLess(names[i + 1], names[i])

(* Some membership entry of the document carries a tid that is no key of d. *)
UnknownTid(doc, d) ==
    \E n \in 1..Len(doc.nodes) : \E i \in 1..Len(doc.nodes[n].tids) :
        LET tid == doc.nodes[n].tids[i]
        IN  /\ ~IsNone(tid)
            /\ ParseInt(Get(tid)).ok
            /\ Some(ParseInt(Get(tid)).val) \notin DOMAIN d

StageOrder == <<"fetch", "catalog", "groups", "multicast", "unicast">>

----------------------------------------------------------------------------
(* Claims about a run of main, checked under Spec. *)

(* C1: once the Catalog is built for a document in which some membership
   entry carries a tid that is no key of it, the run can only be about to
   build the groups or have failed; it never gets past group building, both
   output files are as they were before the run, no group list exists and
   write_playlist was never called. *)
C1_UnknownTidAbortsBeforeWriting ==
    (~IsNone(xml) /\ ~IsNone(channels_by_ids)
        /\ UnknownTid(Get(xml), Get(channels_by_ids)))
    => /\ pc \in {"groups", "failed"}
       /\ fs = InitialFiles
       /\ IsNone(groups)
       /\ calls = <<>>

(* C1 witness: the run failed in group building on a second node's unknown
   tid, after a first node whose entries all resolve. *)
C1_Witness ==
    /\ pc = "failed"
    /\ Len(log) = 3
    /\ log[3] = Stage("groups", FALSE)
    /\ Len(Get(xml).nodes) = 2
    /\ Len(Get(xml).nodes[1].tids) > 0
    /\ ~UnknownTid([Get(xml) EXCEPT !.nodes = <<Get(xml).nodes[1]>>], Get(channels_by_ids))
    /\ UnknownTid(Get(xml), Get(channels_by_ids))

(* C4: the stages run at most once each and in the order fetch, catalog,
   groups, multicast, unicast; only the last stage that ran can have failed,
   and then the run is in its failed state; the run is done only after all
   five stages succeeded, with both files holding a complete playlist and
   both write_playlist calls given the same group list and proxy address. *)
C4_StagesInOrderNoRetry ==
    /\ Len(log) <= Len(StageOrder)
    /\ \A i \in 1..Len(log) : log[i].stage = StageOrder[i]
    /\ \A i \in 1..(Len(log) - 1) : log[i].ok
    /\ (Len(log) > 0 /\ ~log[Len(log)].ok) => pc = "failed"
    /\ (pc \notin {"args", "failed", "done"})
          => (Len(log) < Len(StageOrder) /\ pc = StageOrder[Len(log) + 1])
    /\ Len(calls) = Cardinality({i \in 1..Len(log) : log[i].stage \in {"multicast", "unicast"}})
    /\ pc = "done"
          => /\ Len(log) = Len(StageOrder)
             /\ \A i \in 1..Len(log) : log[i].ok
             /\ Len(calls) = 2
             /\ calls[1].playlist_type = MULTICAST
             /\ calls[2].playlist_type = UNICAST
             /\ calls[1].groups = calls[2].groups
             /\ calls[1].proxy_address = calls[2].proxy_address
             /\ \A i \in 1..2 :
                   /\ ~IsNone(fs[calls[i].filename])
                   /\ Len(Get(fs[calls[i].filename])) = 1 + 2 * Len(Entries(calls[i].groups))

(* C4 witness: a run that is done after writing a playlist with entries. *)
C4_Witness ==
    /\ pc = "done"
    /\ Len(Entries(Get(groups))) >= 2
    /\ calls[1].filename # calls[2].filename

(* C5: when group building returned, there is one group per node, in
   document order, named by the node's trimmed title, whose channels are,
   position by position, the Catalog's entries for the tids of the node's
   children; and the Catalog is still the one built from the tracks. *)
C5_GroupsResolveInDocumentOrder ==
    ~IsNone(groups)
    => LET gs == Get(groups)
           nodes == Get(xml).nodes
           d == Get(channels_by_ids)
       IN  /\ Len(gs) = Len(nodes)
           /\ \A n \in 1..Len(nodes) :
                 /\ gs[n].name = Strip(Get(nodes[n].title))
                 /\ Len(gs[n].channels) = Len(nodes[n].tids)
                 /\ \A i \in 1..Len(nodes[n].tids) :
                       gs[n].channels[i] = d[Some(ParseInt(Get(nodes[n].tids[i])).val)]
           /\ d = ParseChannelsByIds(Get(xml)).val

(* C5 witness: groups were built where one group holds the same channel
   twice and a channel is in both groups. *)
C5_Witness ==
    /\ ~IsNone(groups)
    /\ Len(Get(groups)) = 2
    /\ \E i, j \in 1..Len(Get(groups)[1].channels) :
          i # j /\ Get(groups)[1].channels[i] = Get(groups)[1].channels[j]
    /\ \E i \in 1..Len(Get(groups)[1].channels), j \in 1..Len(Get(groups)[2].channels) :
          Get(groups)[1].channels[i] = Get(groups)[2].channels[j]
    /\ Get(groups)[1].channels # Get(groups)[2].channels

(* C6: when the Catalog is built, its keys are the ids of the tracks (None
   for a track without an id), each key maps to the Channel of the last
   track carrying that id, and the Channel's id is its key. *)
C6_CatalogLastWriterWins ==
    ~IsNone(channels_by_ids)
    => LET d == Get(channels_by_ids)
           tracks == Get(xml).tracks
           t(i) == ParseTrack(tracks[i])
       IN  /\ DOMAIN d = {t(i).id : i \in 1..Len(tracks)}
           /\ \A i \in 1..Len(tracks) :
                 (\A j \in (i + 1)..Len(tracks) : t(j).id # t(i).id)
                 => d[t(i).id] = Channel(t(i).id, t(i).name, t(i).address)
           /\ \A k \in DOMAIN d : d[k].id = k

(* C6 witness: a Catalog built from two tracks of one id that yield
   different Channels. *)
C6_Witness ==
    /\ ~IsNone(channels_by_ids)
    /\ Len(Get(xml).tracks) = 2
    /\ ParseTrack(Get(xml).tracks[1]).id = ParseTrack(Get(xml).tracks[2]).id
    /\ ParseTrack(Get(xml).tracks[1]) # ParseTrack(Get(xml).tracks[2])

(* A track lacks a title or a location sub-element, or its location text has
   no "@" or no ":" after it, or its port or id text is no number. *)
StructurallyBroken(trackElem) ==
    \/ ~\E i \in 1..Len(trackElem) : trackElem[i].tag = "title"
    \/ ~\E i \in 1..Len(trackElem) : trackElem[i].tag = "location"
    \/ \E i \in 1..Len(trackElem) :
          /\ trackElem[i].tag = "location"
          /\ ~IsNone(trackElem[i].text)
          /\ LET text == Get(trackElem[i].text)
                 at == Find(text, "@")
                 rest == SubSeq(text, at + 1, Len(text))
                 colon == Find(rest, ":")
             IN  \/ at = 0
                 \/ colon = 0
                 \/ ~ParseInt(SubSeq(rest, colon + 1, Len(rest))).ok
    \/ \E i \in 1..Len(trackElem) :
          /\ trackElem[i].tag = "extension"
          /\ ~IsNone(trackElem[i].idElem)
          /\ ~IsNone(Get(trackElem[i].idElem))
          /\ ~ParseInt(Get(Get(trackElem[i].idElem))).ok

(* C7 as claimed: a document with a structurally broken track never gets
   past Catalog building (no Catalog, no groups, no file touched), and no
   Channel without a name or an address is given to write_playlist. *)
C7_StructuralFailureIsFatal ==
    /\ (~IsNone(xml) /\ \E i \in 1..Len(Get(xml).tracks) :
                            StructurallyBroken(Get(xml).tracks[i]))
       => /\ pc \in {"catalog", "failed"}
          /\ IsNone(channels_by_ids)
          /\ IsNone(groups)
          /\ fs = InitialFiles
          /\ calls = <<>>
    /\ \A c \in 1..Len(calls) : \A k \in 1..Len(Entries(calls[c].groups)) :
          /\ ~IsNone(Entries(calls[c].groups)[k][2].name)
          /\ ~IsNone(Entries(calls[c].groups)[k][2].address)

(* C8 as claimed: every address of the run, the proxy's and each channel's,
   has a port that is not negative. *)
C8_PortsNotNegative ==
    /\ ~IsNone(args) => Get(args).port >= 0
    /\ ~IsNone(proxy_address) => Get(proxy_address).port >= 0
    /\ ~IsNone(channels_by_ids)
          => \A k \in DOMAIN Get(channels_by_ids) :
                ~IsNone(Get(channels_by_ids)[k].address)
                => Get(Get(channels_by_ids)[k].address).port >= 0

(* C9 as claimed: after a run that is done, the multicast path holds the
   multicast rendering of the groups and the unicast path the unicast one. *)
C9_RendersDoNotInterfere ==
    (pc = "done"
        /\ \A k \in 1..Len(Entries(Get(groups))) :
              /\ ~IsNone(Entries(Get(groups))[k][2].name)
              /\ ~IsNone(Entries(Get(groups))[k][2].address))
    => LET gs == IF Get(args).sort_by_name THEN GroupsByName(Get(groups))
                 ELSE Get(groups)
       IN  /\ IsRenderingOf(Get(fs[Get(args).multicast_playlist]), MULTICAST, gs,
                            Get(proxy_address))
           /\ IsRenderingOf(Get(fs[Get(args).unicast_playlist]), UNICAST, gs,
                            Get(proxy_address))

----------------------------------------------------------------------------
(* Claims about write_playlist, checked under SpecWrite. *)

(* C2: after a call that returned, with a type of MULTICAST or UNICAST and
   without sorting, the file holds the header and then, for each group and
   each of its channels in input order, the EXTINF line and the target line
   of the type: 1 + 2 * N lines for N entries; no other file changed. *)
C2_UnsortedRendering ==
    (pc = "returned" /\ wcall.playlist_type \in {MULTICAST, UNICAST}
        /\ ~wcall.sort_by_name)
    => /\ ~IsNone(fs[wcall.filename])
       /\ IsRenderingOf(Get(fs[wcall.filename]), wcall.playlist_type, wcall.groups,
                        wcall.proxy_address)
       /\ \A p \in Paths \ {wcall.filename} : fs[p] = InitialFiles[p]

(* C2 witness: an unsorted unicast call with 2 groups of 2 channels each
   returned and left 1 + 8 lines. *)
C2_Witness ==
    /\ pc = "returned"
    /\ wcall.playlist_type = UNICAST
    /\ ~wcall.sort_by_name
    /\ Len(wcall.groups) = 2
    /\ Len(wcall.groups[1].channels) = 2
    /\ Len(wcall.groups[2].channels) = 2
    /\ wcall.groups[1] # wcall.groups[2]
    /\ Len(Get(fs[wcall.filename])) = 9

(* C3: after a sorted call that returned, the file is the rendering of the
   groups in the one order that is non-decreasing in the group names and
   keeps equal names in input order, each group's channels ordered likewise
   by channel name; so the group titles, and each group's channel names,
   read top to bottom, never decrease. *)
C3_SortedRenderingIsStable ==
    (pc = "returned" /\ wcall.playlist_type \in {MULTICAST, UNICAST}
        /\ wcall.sort_by_name)
    => LET sorted == GroupsByName(wcall.groups)
       IN  /\ IsRenderingOf(Get(fs[wcall.filename]), wcall.playlist_type, sorted,
                            wcall.proxy_address)
           /\ NonDecreasing([i \in 1..Len(sorted) |-> sorted[i].name])
           /\ \A g \in 1..Len(sorted) :
                 NonDecreasing([i \in 1..Len(sorted[g].channels) |->
                                   Get(sorted[g].channels[i].name)])

(* C3 witness: a sorted call returned for two groups of one name and
   different channels, the first with channels of equal names out of order. *)
C3_Witness ==
    /\ pc = "returned"
    /\ wcall.sort_by_name
    /\ wcall.playlist_type = MULTICAST
    /\ Len(wcall.groups) = 2
    /\ wcall.groups[1].name = wcall.groups[2].name
    /\ wcall.groups[1].channels = <<ChanAb, ChanA1, ChanB, ChanA2>>
    /\ wcall.groups[2].channels = <<ChanA2, ChanA1>>

(* C10 as claimed: a call whose type is neither MULTICAST nor UNICAST never
   returns. *)
C10_UnknownTypeNeverReturns ==
    pc = "returned" => wcall.playlist_type \in {MULTICAST, UNICAST}

====
